---------------------------- MODULE Spec2Model ----------------------------
(***************************************************************************)
(* repr-size (src/src/lib.rs): Units, the catalog of byte units, and Size, *)
(* a usize byte count that picks a unit and renders itself.                *)
(*                                                                         *)
(* A usize is 64 bits wide and TLC's integers are 32 bits wide, so a usize *)
(* is a little-endian sequence of 16-bit limbs with no leading zero limb   *)
(* (<<>> is 0).  An f32 is [m, e] with value m * 2^e and 2^23 <= m < 2^24, *)
(* or m = 0.  A rendered string "<ip>.<fd> <symbol>" is the record of its  *)
(* integer part, its one fractional digit and its symbol.                  *)
(***************************************************************************)
EXTENDS Integers, Sequences

VARIABLES
    size,             \* the Size the last constructor call produced, if any
    ctor,             \* the last constructor call and its arguments
    last,             \* the last call on a Size or on a Units, with its result
    factors,          \* what Units::bytes returned, per unit asked so far
    overflow_checks,  \* the build: debug (arithmetic overflow panics) or release (wraps)
    ties_even         \* the build's std: {:.1} rounds an exact tie to even, or away from zero

vars == <<size, ctor, last, factors, overflow_checks, ties_even>>

\* Bounds of the model.
MaxDelta == 2
MaxAmount == 3

\* The platform word: usize and isize are 64 bits wide.
UsizeBits == 64
\* f32: 24 bits of significand.
F32Bits == 24

Base == 2^16
UsizeLimbs == UsizeBits \div 16

-----------------------------------------------------------------------------
(* Unsigned integers of any width. *)

RECURSIVE BNorm(_)
BNorm(a) ==
    IF a = <<>> THEN <<>>
    ELSE IF a[Len(a)] = 0 THEN BNorm(SubSeq(a, 1, Len(a) - 1))
    ELSE a

RECURSIVE NatOf(_)
NatOf(i) == IF i = 0 THEN <<>> ELSE <<i % Base>> \o NatOf(i \div Base)

RECURSIVE AddC(_, _, _)
AddC(a, b, c) ==
    IF a = <<>> /\ b = <<>> THEN NatOf(c)
    ELSE LET x == IF a = <<>> THEN 0 ELSE Head(a)
             y == IF b = <<>> THEN 0 ELSE Head(b)
             s == x + y + c
         IN  <<s % Base>> \o AddC(IF a = <<>> THEN <<>> ELSE Tail(a),
                                  IF b = <<>> THEN <<>> ELSE Tail(b),
                                  s \div Base)

BAdd(a, b) == BNorm(AddC(a, b, 0))

RECURSIVE SubC(_, _, _)
SubC(a, b, c) ==
    IF a = <<>> THEN <<>>
    ELSE LET y == IF b = <<>> THEN 0 ELSE Head(b)
             d == Head(a) - y - c
         IN  <<d % Base>> \o SubC(Tail(a),
                                  IF b = <<>> THEN <<>> ELSE Tail(b),
                                  IF d < 0 THEN 1 ELSE 0)

RECURSIVE MulC(_, _, _)
MulC(a, k, c) ==
    IF a = <<>> THEN NatOf(c)
    ELSE LET p == Head(a) * k + c
         IN  <<p % Base>> \o MulC(Tail(a), k, p \div Base)

BMulSmall(a, k) == BNorm(MulC(a, k, 0))

RECURSIVE LtFrom(_, _, _)
LtFrom(a, b, i) ==
    IF i = 0 THEN FALSE
    ELSE IF a[i] # b[i] THEN a[i] < b[i]
    ELSE LtFrom(a, b, i - 1)

BLt(a, b) ==
    \/ Len(a) < Len(b)
    \/ Len(a) = Len(b) /\ LtFrom(a, b, Len(a))

BLe(a, b) == ~BLt(b, a)

\* a - b, for b <= a
BSub(a, b) == BNorm(SubC(a, b, 0))

\* a * k for a limb k, in two halves of 8 bits
BMulLimb(a, k) == BAdd(BMulSmall(BMulSmall(a, k \div 256), 256), BMulSmall(a, k % 256))

\* a * b, long multiplication
RECURSIVE BMul(_, _)
BMul(a, b) ==
    IF b = <<>> THEN <<>>
    ELSE BAdd(BMulLimb(a, Head(b)),
              LET r == BMul(a, Tail(b)) IN IF r = <<>> THEN <<>> ELSE <<0>> \o r)

\* [q, r]: a = q * k + r, for 0 < k < 2^15
RECURSIVE DivC(_, _)
DivC(a, k) ==
    IF a = <<>> THEN [q |-> <<>>, r |-> 0]
    ELSE LET up == DivC(Tail(a), k)
             cur == up.r * Base + Head(a)
         IN  [q |-> <<cur \div k>> \o up.q, r |-> cur % k]

BDivSmall(a, k) == LET d == DivC(a, k) IN [q |-> BNorm(d.q), r |-> d.r]

\* the value of a, for a < 2^31
ToInt(a) ==
    IF a = <<>> THEN 0
    ELSE IF Len(a) = 1 THEN a[1]
    ELSE a[1] + a[2] * Base

RECURSIVE BitXor(_, _)
BitXor(a, b) ==
    IF a = 0 THEN b
    ELSE IF b = 0 THEN a
    ELSE (((a % 2) + (b % 2)) % 2) + 2 * BitXor(a \div 2, b \div 2)

-----------------------------------------------------------------------------
(* usize arithmetic *)

UsizeModulus == <<0, 0, 0, 0, 1>>
UsizeMax == <<Base - 1, Base - 1, Base - 1, Base - 1>>

Overflows(a) == Len(a) > UsizeLimbs

\* the low 64 bits: what a wrapping operation keeps
Wrap(a) == IF Len(a) > UsizeLimbs THEN BNorm(SubSeq(a, 1, UsizeLimbs)) ELSE a

\* usize::pow, for the operands of get_units and get_si_units
RECURSIVE usize_pow(_, _)
usize_pow(base, exp) ==
    IF exp = 0 THEN NatOf(1) ELSE Wrap(BMulSmall(usize_pow(base, exp - 1), base))

-----------------------------------------------------------------------------
(* The unit catalog *)

Units == {"Bytes", "Kilobytes", "Kibibytes", "Megabytes", "Mebibytes", "Gigabytes",
          "Gibibytes", "Terabytes", "Tebibytes", "Petabytes", "Pebibytes"}

\* Units::bytes with the values of Kilobytes and Kibibytes exchanged
bytes_swapped(u) ==
    CASE u = "Bytes" -> NatOf(1)
      [] u = "Kilobytes" -> NatOf(1024)
      [] u = "Kibibytes" -> NatOf(1000)
      [] u = "Megabytes" -> NatOf(BitXor(1000, 2))
      [] u = "Mebibytes" -> NatOf(BitXor(1024, 2))
      [] u = "Gigabytes" -> NatOf(BitXor(1000, 3))
      [] u = "Gibibytes" -> NatOf(BitXor(1024, 3))
      [] u = "Terabytes" -> NatOf(BitXor(1000, 4))
      [] u = "Tebibytes" -> NatOf(BitXor(1024, 4))
      [] u = "Petabytes" -> NatOf(BitXor(1000, 5))
      [] u = "Pebibytes" -> NatOf(BitXor(1024, 5))

\* Units::bytes.  In Rust ^ is bitwise exclusive or.
bytes(u) ==
    CASE u = "Bytes" -> NatOf(1)
      [] u = "Kilobytes" -> NatOf(1000)
      [] u = "Kibibytes" -> NatOf(1024)
      [] u = "Megabytes" -> NatOf(BitXor(1000, 2))
      [] u = "Mebibytes" -> NatOf(BitXor(1024, 2))
      [] u = "Gigabytes" -> NatOf(BitXor(1000, 3))
      [] u = "Gibibytes" -> NatOf(BitXor(1024, 3))
      [] u = "Terabytes" -> NatOf(BitXor(1000, 4))
      [] u = "Tebibytes" -> NatOf(BitXor(1024, 4))
      [] u = "Petabytes" -> NatOf(BitXor(1000, 5))
      [] u = "Pebibytes" -> NatOf(BitXor(1024, 5))

\* impl Display for Units
symbol(u) ==
    CASE u = "Bytes" -> "B"
      [] u = "Kilobytes" -> "kB"
      [] u = "Kibibytes" -> "KiB"
      [] u = "Megabytes" -> "MB"
      [] u = "Mebibytes" -> "MiB"
      [] u = "Gigabytes" -> "GB"
      [] u = "Gibibytes" -> "GiB"
      [] u = "Terabytes" -> "TB"
      [] u = "Tebibytes" -> "TiB"
      [] u = "Petabytes" -> "PB"
      [] u = "Pebibytes" -> "PiB"

-----------------------------------------------------------------------------
(* Unit selection *)

\* Size::get_units with <= for <
get_units_le(x) ==
    IF BLe(x, NatOf(1000)) THEN "Bytes"
    ELSE IF BLe(x, usize_pow(1000, 2)) THEN "Kilobytes"
    ELSE IF BLe(x, usize_pow(1000, 3)) THEN "Megabytes"
    ELSE IF BLe(x, usize_pow(1000, 4)) THEN "Gigabytes"
    ELSE IF BLe(x, usize_pow(1000, 5)) THEN "Terabytes"
    ELSE "Petabytes"

\* Size::get_units on Size(x)
get_units(x) ==
    IF BLt(x, NatOf(1000)) THEN "Bytes"
    ELSE IF BLt(x, usize_pow(1000, 2)) THEN "Kilobytes"
    ELSE IF BLt(x, usize_pow(1000, 3)) THEN "Megabytes"
    ELSE IF BLt(x, usize_pow(1000, 4)) THEN "Gigabytes"
    ELSE IF BLt(x, usize_pow(1000, 5)) THEN "Terabytes"
    ELSE "Petabytes"

\* Size::get_si_units with the decimal thresholds
get_si_units_decimal(x) ==
    IF BLt(x, NatOf(1000)) THEN "Bytes"
    ELSE IF BLt(x, usize_pow(1000, 2)) THEN "Kibibytes"
    ELSE IF BLt(x, usize_pow(1000, 3)) THEN "Mebibytes"
    ELSE IF BLt(x, usize_pow(1000, 4)) THEN "Gibibytes"
    ELSE IF BLt(x, usize_pow(1000, 5)) THEN "Tebibytes"
    ELSE "Pebibytes"

\* Size::get_si_units on Size(x)
get_si_units(x) ==
    IF BLt(x, NatOf(1024)) THEN "Bytes"
    ELSE IF BLt(x, usize_pow(1024, 2)) THEN "Kibibytes"
    ELSE IF BLt(x, usize_pow(1024, 3)) THEN "Mebibytes"
    ELSE IF BLt(x, usize_pow(1024, 4)) THEN "Gibibytes"
    ELSE IF BLt(x, usize_pow(1024, 5)) THEN "Tebibytes"
    ELSE "Pebibytes"

-----------------------------------------------------------------------------
(* f32 *)

F32Zero == [m |-> 0, e |-> 0]

\* q * 2^e with q < 2^25 and the bits below q (sticky: any of them set), rounded
\* to nearest, ties to even, to 24 bits
RECURSIVE F32Round(_, _, _)
F32Round(q, sticky, e) ==
    IF q = 0 THEN F32Zero
    ELSE IF q < 2^(F32Bits - 1) THEN F32Round(2 * q, sticky, e - 1)
    ELSE IF q < 2^F32Bits THEN [m |-> q, e |-> e]
    ELSE LET m == q \div 2
             guard == q % 2
             up == guard = 1 /\ (sticky \/ m % 2 = 1)
             r == IF up THEN m + 1 ELSE m
         IN  IF r = 2^F32Bits THEN [m |-> 2^(F32Bits - 1), e |-> e + 2]
             ELSE [m |-> r, e |-> e + 1]

RECURSIVE IntBits(_)
IntBits(i) == IF i = 0 THEN 0 ELSE 1 + IntBits(i \div 2)

\* the number of bits of a
BitLen(a) == IF a = <<>> THEN 0 ELSE 16 * (Len(a) - 1) + IntBits(a[Len(a)])

\* `x as f32` for a usize x: the top 25 bits, and whether any bit below them is set
as_f32(x) ==
    LET nb == BitLen(x)
        s == IF nb > F32Bits + 1 THEN nb - (F32Bits + 1) ELSE 0
        w == s \div 16
        d == BDivSmall(SubSeq(x, w + 1, Len(x)), 2^(s % 16))
        sticky == d.r # 0 \/ \E i \in 1..w : x[i] # 0
    IN  F32Round(ToInt(d.q), sticky, s)

\* the quotient's bits, one at a time, until there are 25 of them
RECURSIVE DivBits(_, _, _, _)
DivBits(q, r, d, e) ==
    IF q >= 2^F32Bits THEN [q |-> q, r |-> r, e |-> e]
    ELSE LET r2 == 2 * r
         IN  IF r2 >= d THEN DivBits(2 * q + 1, r2 - d, d, e - 1)
             ELSE DivBits(2 * q, r2, d, e - 1)

\* a / b on f32, b # 0
f32_div(a, b) ==
    IF a.m = 0 THEN F32Zero
    ELSE LET t == DivBits(a.m \div b.m, a.m % b.m, b.m, a.e - b.e)
         IN  F32Round(t.q, t.r # 0, t.e)

\* a * 2^k
RECURSIVE ShiftLeft(_, _)
ShiftLeft(a, k) ==
    IF a = <<>> THEN <<>>
    ELSE IF k >= 16 THEN <<0>> \o ShiftLeft(a, k - 16)
    ELSE BMulSmall(BMulSmall(a, 2^(k \div 2)), 2^(k - (k \div 2)))

\* format!("{:.1}", f): the integer part and the one fractional digit
fmt_1(f, even) ==
    IF f.m = 0 THEN [ip |-> <<>>, fd |-> 0]
    ELSE IF f.e >= 0 THEN [ip |-> ShiftLeft(NatOf(f.m), f.e), fd |-> 0]
    ELSE IF -f.e >= F32Bits + 5 THEN [ip |-> <<>>, fd |-> 0]
    ELSE LET p == 2^(-f.e)
             ip == f.m \div p
             fr == f.m % p
             t == (10 * fr) \div p
             rr == (10 * fr) % p
             up == \/ 2 * rr > p
                   \/ 2 * rr = p /\ (IF even THEN t % 2 = 1 ELSE TRUE)
             t2 == IF up THEN t + 1 ELSE t
         IN  IF t2 = 10 THEN [ip |-> NatOf(ip + 1), fd |-> 0]
             ELSE [ip |-> NatOf(ip), fd |-> t2]

-----------------------------------------------------------------------------
(* Size *)

None == [tag |-> "None", v |-> <<>>]
Ok(v) == [tag |-> "Ok", v |-> v]
Err == [tag |-> "Err", v |-> <<>>]
Panic == [tag |-> "Panic", v |-> <<>>]

\* the string "<ip>.<fd> <sym>"
Str(num, sym) == [kind |-> "string", n |-> num.ip, unit |-> sym, fd |-> num.fd]
RUnits(u) == [kind |-> "units", n |-> <<>>, unit |-> u, fd |-> 0]
RUsize(v) == [kind |-> "usize", n |-> v, unit |-> "-", fd |-> 0]
RSymbol(t) == [kind |-> "symbol", n |-> <<>>, unit |-> t, fd |-> 0]
RNone == [kind |-> "none", n |-> <<>>, unit |-> "-", fd |-> 0]

\* Size::repr on Size(x)
repr(x, unit, even) ==
    LET number == f32_div(as_f32(x), as_f32(bytes(unit)))
    IN  Str(fmt_1(number, even), symbol(unit))

\* Size::to_string on Size(x)
to_string(x, even) ==
    LET unit == get_units(x)
        number == f32_div(as_f32(x), as_f32(bytes(unit)))
    IN  Str(fmt_1(number, even), symbol(unit))

\* Size::to_si_string on Size(x)
to_si_string(x, even) ==
    LET unit == get_si_units(x)
        number == f32_div(as_f32(x), as_f32(bytes(unit)))
    IN  Str(fmt_1(number, even), symbol(unit))

\* Size::from_units: the product panics on overflow in a build with overflow
\* checks and wraps in one without
from_units(x, unit, checks) ==
    LET p == BMul(x, bytes(unit))
    IN  IF Overflows(p) THEN (IF checks THEN Panic ELSE Ok(Wrap(p))) ELSE Ok(p)

\* impl From<usize> for Size
from(rhs) == Ok(rhs)

\* into through a 32-bit integer
into_u32(x) == IF Len(x) > 2 THEN BNorm(SubSeq(x, 1, 2)) ELSE x

\* impl Into<usize> for Size, on Size(x)
into(x) == x

\* try_from with the cast `rhs as usize` for the checked conversion
try_from_cast(rhs) ==
    IF rhs.neg THEN Ok(BSub(UsizeModulus, rhs.mag)) ELSE Ok(rhs.mag)

\* impl TryFrom<isize> for Size; rhs is [neg, mag]
try_from(rhs) == IF rhs.neg THEN Err ELSE Ok(rhs.mag)

-----------------------------------------------------------------------------
(* The calls the model makes *)

Thresholds == {usize_pow(1000, k) : k \in 1..5} \cup {usize_pow(1024, k) : k \in 1..5}

Examples == {NatOf(54222), NatOf(2300), NatOf(22000), NatOf(1050), NatOf(1150),
             NatOf(256), NatOf(768), NatOf(999949), NatOf(999950), NatOf(999999),
             NatOf(2000000), NatOf(16777217)}

Counts ==
    {BAdd(t, NatOf(d)) : t \in Thresholds, d \in 0..MaxDelta}
      \cup {BSub(t, NatOf(d)) : t \in Thresholds, d \in 1..MaxDelta}
      \cup {NatOf(d) : d \in 0..MaxDelta}
      \cup {BSub(UsizeMax, NatOf(d)) : d \in 0..MaxDelta}
      \cup Examples

Amounts ==
    {NatOf(a) : a \in 0..MaxAmount}
      \cup {NatOf(23), <<0, 0, 0, 64>>, <<0, 0, 0, 1>>, UsizeMax}

IsizeMax == <<Base - 1, Base - 1, Base - 1, (Base \div 2) - 1>>
IsizeMinMag == <<0, 0, 0, Base \div 2>>

Isizes ==
    {[neg |-> FALSE, mag |-> NatOf(d)] : d \in 0..MaxDelta}
      \cup {[neg |-> TRUE, mag |-> NatOf(d)] : d \in 1..(MaxDelta + 1)}
      \cup {[neg |-> FALSE, mag |-> BSub(IsizeMax, NatOf(d))] : d \in 0..MaxDelta}
      \cup {[neg |-> TRUE, mag |-> BSub(IsizeMinMag, NatOf(d))] : d \in 0..MaxDelta}

NoCall == [op |-> "none", unit |-> "-", ret |-> RNone]
NoCtor == [op |-> "none", x |-> <<>>, neg |-> FALSE, unit |-> "-"]
NotAsked == [asked |-> FALSE, n |-> <<>>]

Init ==
    /\ size = None
    /\ ctor = NoCtor
    /\ last = NoCall
    /\ factors = [u \in Units |-> NotAsked]
    /\ overflow_checks \in BOOLEAN
    /\ ties_even \in BOOLEAN

Build == <<overflow_checks, ties_even>>

\* Size::from(rhs)
From(rhs) ==
    /\ size' = from(rhs)
    /\ ctor' = [op |-> "from", x |-> rhs, neg |-> FALSE, unit |-> "-"]
    /\ last' = NoCall
    /\ UNCHANGED <<factors, Build>>

\* Size::from_units(x, unit)
FromUnits(x, unit) ==
    /\ size' = from_units(x, unit, overflow_checks)
    /\ ctor' = [op |-> "from_units", x |-> x, neg |-> FALSE, unit |-> unit]
    /\ last' = NoCall
    /\ UNCHANGED <<factors, Build>>

\* Size::try_from(rhs)
TryFrom(rhs) ==
    /\ size' = try_from(rhs)
    /\ ctor' = [op |-> "try_from", x |-> rhs.mag, neg |-> rhs.neg, unit |-> "-"]
    /\ last' = NoCall
    /\ UNCHANGED <<factors, Build>>

Call(op, unit, ret) ==
    /\ size.tag = "Ok"
    /\ last' = [op |-> op, unit |-> unit, ret |-> ret]
    /\ UNCHANGED <<size, ctor, factors, Build>>

Into == Call("into", "-", RUsize(into(size.v)))
GetUnits == Call("get_units", "-", RUnits(get_units(size.v)))
GetSiUnits == Call("get_si_units", "-", RUnits(get_si_units(size.v)))
SizeToString == Call("to_string", "-", to_string(size.v, ties_even))
SizeToSiString == Call("to_si_string", "-", to_si_string(size.v, ties_even))
Repr(unit) == Call("repr", unit, repr(size.v, unit, ties_even))
\* impl Display for Size
Fmt == Call("fmt", "-", to_string(size.v, ties_even))

Next ==
    \/ \E rhs \in Counts : From(rhs)
    \/ \E x \in Amounts, unit \in Units : FromUnits(x, unit)
    \/ \E rhs \in Isizes : TryFrom(rhs)
    \/ Into
    \/ GetUnits
    \/ GetSiUnits
    \/ SizeToString
    \/ SizeToSiString
    \/ \E unit \in Units : Repr(unit)
    \/ Fmt

Spec == Init /\ [][Next]_vars

\* Units::bytes on unit
Bytes(unit) ==
    /\ last' = [op |-> "bytes", unit |-> unit, ret |-> RUsize(bytes(unit))]
    /\ factors' = [factors EXCEPT ![unit] = [asked |-> TRUE, n |-> bytes(unit)]]
    /\ UNCHANGED <<size, ctor, Build>>

\* impl Display for Units, on unit
FmtUnits(unit) ==
    /\ last' = [op |-> "symbol", unit |-> unit, ret |-> RSymbol(symbol(unit))]
    /\ UNCHANGED <<size, ctor, factors, Build>>

NextCatalog ==
    \/ \E unit \in Units : Bytes(unit)
    \/ \E unit \in Units : FmtUnits(unit)

SpecCatalog == Init /\ [][NextCatalog]_vars

-----------------------------------------------------------------------------
(* What the claims speak of *)

DecimalChain == <<"Bytes", "Kilobytes", "Megabytes", "Gigabytes", "Terabytes", "Petabytes">>
BinaryChain == <<"Bytes", "Kibibytes", "Mebibytes", "Gibibytes", "Tebibytes", "Pebibytes">>

Chains == {DecimalChain, BinaryChain}

\* b to the power k
RECURSIVE TruePow(_, _)
TruePow(b, k) == IF k = 0 THEN NatOf(1) ELSE BMulSmall(TruePow(b, k - 1), b)

\* the power of 1000 or of 1024 that unit u stands for
TrueScale(u) ==
    IF \E i \in 1..6 : DecimalChain[i] = u
    THEN TruePow(1000, (CHOOSE i \in 1..6 : DecimalChain[i] = u) - 1)
    ELSE TruePow(1024, (CHOOSE i \in 1..6 : BinaryChain[i] = u) - 1)

\* the unit of the chain whose range [b^k, b^(k+1)) holds n; the first unit also
\* takes 0 and the last has no upper end
UnitByRange(n, b, chain) ==
    chain[CHOOSE i \in 1..6 :
            /\ (i > 1 => BLe(TruePow(b, i - 1), n))
            /\ (i < 6 => BLt(n, TruePow(b, i)))]

\* ip.fd is n / s rounded to one fractional digit, a tie going either way:
\* |10 n - (10 ip + fd) s| <= s / 2
IsRounding(n, s, ip, fd) ==
    LET lhs == BMulSmall(n, 20)
        rhs == BMulSmall(BMul(BAdd(BMulSmall(ip, 10), NatOf(fd)), s), 2)
    IN  BLe(lhs, BAdd(rhs, s)) /\ BLe(rhs, BAdd(lhs, s))

Rendered(ip, fd, sym) == [kind |-> "string", n |-> NatOf(ip), unit |-> sym, fd |-> fd]

\* C1: Units::bytes returns 1 for Bytes, 1000^n for the n-th decimal unit and
\* 1024^n for the n-th binary unit, n = 1..5.
C1_TruePowers ==
    last.op = "bytes" => last.ret = RUsize(TrueScale(last.unit))

\* C2: get_units is Bytes below 1000, Kilobytes from 1000 up to 1000^2, ...,
\* Petabytes from 1000^5 on; 999 gives Bytes, 1000 and 1001 give Kilobytes.
C2_DecimalUnits ==
    last.op = "get_units" =>
        /\ last.ret = RUnits(UnitByRange(size.v, 1000, DecimalChain))
        /\ (size.v = NatOf(999) => last.ret.unit = "Bytes")
        /\ (size.v \in {NatOf(1000), NatOf(1001)} => last.ret.unit = "Kilobytes")

C2_Witness ==
    /\ last.op = "get_units"
    /\ size.v = TruePow(1000, 5)
    /\ last.ret.unit = "Petabytes"

\* C3: get_si_units is Bytes below 1024, Kibibytes from 1024 up to 1024^2, ...,
\* Pebibytes from 1024^5 on; 1022 gives Bytes, 1024 and 1025 give Kibibytes.
C3_BinaryUnits ==
    last.op = "get_si_units" =>
        /\ last.ret = RUnits(UnitByRange(size.v, 1024, BinaryChain))
        /\ (size.v = NatOf(1022) => last.ret.unit = "Bytes")
        /\ (size.v \in {NatOf(1024), NatOf(1025)} => last.ret.unit = "Kibibytes")

C3_Witness ==
    /\ last.op = "get_si_units"
    /\ size.v = TruePow(1024, 5)
    /\ last.ret.unit = "Pebibytes"

\* C4: for a count n >= 1 the unit U that get_units (get_si_units) returns has
\* bytes(U) <= n, and every unit V of the family with bytes(V) > bytes(U) has
\* bytes(V) > n; and a Size built by from_units(1, U) selects U in U's family.
C4_LargestUnit ==
    /\ \A chain \in Chains :
        ( /\ last.op = (IF chain = DecimalChain THEN "get_units" ELSE "get_si_units")
          /\ size.v # <<>> ) =>
            /\ BLe(bytes(last.ret.unit), size.v)
            /\ \A i \in 1..6 :
                BLt(bytes(last.ret.unit), bytes(chain[i])) => BLt(size.v, bytes(chain[i]))
    /\ \A chain \in Chains :
        ( /\ last.op = (IF chain = DecimalChain THEN "get_units" ELSE "get_si_units")
          /\ ctor.op = "from_units"
          /\ ctor.x = NatOf(1)
          /\ \E i \in 1..6 : chain[i] = ctor.unit ) =>
            last.ret = RUnits(ctor.unit)

\* the number of a rendering is at least 1.0 and below lim.0
InRange(ret, lim) == BLe(NatOf(1), ret.n) /\ BLt(ret.n, NatOf(lim))

\* C5: to_string returns n / scale(get_units(n)) rounded to one fractional digit,
\* a space and the unit's symbol, and to_si_string the same with get_si_units;
\* 54222 gives "54.2 kB", 2300 gives "2.3 kB" and "2.2 KiB"; for n >= 1 the
\* number is at least 1.0 and below 1000.0 (1024.0) unless the unit is the top one.
C5_RenderAuto ==
    /\ last.op = "to_string" =>
        LET unit == get_units(size.v)
        IN  /\ last.ret.kind = "string"
            /\ last.ret.unit = symbol(unit)
            /\ IsRounding(size.v, TrueScale(unit), last.ret.n, last.ret.fd)
            /\ (size.v # <<>> /\ unit # "Petabytes" => InRange(last.ret, 1000))
            /\ (size.v = NatOf(54222) => last.ret = Rendered(54, 2, "kB"))
            /\ (size.v = NatOf(2300) => last.ret = Rendered(2, 3, "kB"))
    /\ last.op = "to_si_string" =>
        LET unit == get_si_units(size.v)
        IN  /\ last.ret.kind = "string"
            /\ last.ret.unit = symbol(unit)
            /\ IsRounding(size.v, TrueScale(unit), last.ret.n, last.ret.fd)
            /\ (size.v # <<>> /\ unit # "Pebibytes" => InRange(last.ret, 1024))
            /\ (size.v = NatOf(2300) => last.ret = Rendered(2, 2, "KiB"))

\* C6: repr(U) returns n / scale(U) rounded to one fractional digit, a space and
\* U's symbol, the fractional digit always there; 22000 as Kibibytes is
\* "21.4 KiB" and as Bytes "22000.0 B".
C6_ReprAs ==
    last.op = "repr" =>
        /\ last.ret.kind = "string"
        /\ last.ret.unit = symbol(last.unit)
        /\ last.ret.fd \in 0..9
        /\ IsRounding(size.v, TrueScale(last.unit), last.ret.n, last.ret.fd)
        /\ (size.v = NatOf(22000) /\ last.unit = "Kibibytes"
                => last.ret = Rendered(21, 4, "KiB"))
        /\ (size.v = NatOf(22000) /\ last.unit = "Bytes"
                => last.ret = Rendered(22000, 0, "B"))

AllAsked == \A u \in Units : factors[u].asked

\* the factors Units::bytes returned grow along the chain
Increasing(chain) ==
    \A i, j \in 1..6 :
        (i < j /\ factors[chain[i]].asked /\ factors[chain[j]].asked)
            => BLt(factors[chain[i]].n, factors[chain[j]].n)

\* C7 as amended: within the decimal chain and within the binary chain, the
\* factors Units::bytes returns strictly increase with the tier.
C7_StrictlyIncreasing == \A chain \in Chains : Increasing(chain)

C7_Witness == AllAsked /\ last.op = "bytes"

\* C7: the factors strictly increase within each family, and that check fails
\* once the factors are the exclusive-or values and not the powers.
C7_GuardsAgainstXor ==
    /\ C7_StrictlyIncreasing
    /\ (AllAsked /\ \E u \in Units : factors[u].n # TrueScale(u))
            => \E chain \in Chains : ~Increasing(chain)

\* C8: try_from(n) gives the Size of n exactly when n >= 0 and the error, with no
\* panic and no Size, when n < 0; no other call returns an error.
C8_FromSigned ==
    /\ ctor.op = "try_from" =>
        IF ctor.neg THEN size = Err ELSE size = from(ctor.x)
    /\ size.tag = "Err" => ctor.op = "try_from" /\ ctor.neg

C8_Witness ==
    /\ ctor.op = "try_from"
    /\ ctor.neg
    /\ ctor.x = IsizeMinMag
    /\ size = Err

\* C9: from_units(a, U) holds a * scale(U), scale(U) the power of 1000 or 1024
\* that U stands for, whenever that product fits the word; from_units(23,
\* Kilobytes) holds 23000 and from_units(1, Megabytes) holds 1000000.
C9_FromUnits ==
    ctor.op = "from_units" =>
        LET p == BMul(ctor.x, TrueScale(ctor.unit))
        IN  ~Overflows(p) => size = Ok(p)

\* C10: into gives back the count a Size was built from, and building a Size
\* from what into gives yields the same Size.
C10_RoundTrip ==
    last.op = "into" =>
        /\ last.ret.kind = "usize"
        /\ from(last.ret.n) = size
        /\ ctor.op = "from" => last.ret.n = ctor.x

C10_Witness ==
    /\ last.op = "into"
    /\ ctor.op = "from"
    /\ ctor.x = UsizeMax
    /\ last.ret.n = UsizeMax

=============================================================================
